---- MODULE Spec2Model ----
(***************************************************************************)
(* Model of the logrus Stackdriver formatter (src/formatter.go).           *)
(*                                                                         *)
(* Go strings are TLA+ strings, except package paths, which are sequences  *)
(* of their "/"-separated segments so that strings.SplitN on "/vendor/"    *)
(* can be computed.  A Go map is a function over its key set, a nil        *)
(* pointer is the empty tuple and a pointer to r is <<r>>.  An interface{} *)
(* value is a record [kind, s, m]: its dynamic type, its text and, for a   *)
(* map[string]interface{}, its content.                                    *)
(***************************************************************************)
EXTENDS Integers, Sequences, FiniteSets, TLC

VARIABLES f, e, dataAtCall, callstack, origin, ee, ret, pc

vars == <<f, e, dataAtCall, callstack, origin, ee, ret, pc>>

(***************************************************************************)
(* Bounds of the model.                                                    *)
(***************************************************************************)
MaxFields == 2      \* fields of a record
MaxOptions == 2     \* options handed to NewFormatter
MaxDepth == 2       \* frames above Format on the call stack

Nil == <<>>
Ptr(r) == <<r>>
NilError == "<nil>"
EmptyMap == <<>>

(***************************************************************************)
(* Package-level names of src/formatter.go.                                *)
(***************************************************************************)
skipTimestamp == FALSE
DefaultSubjectKey == "X-Subject-Id"
DefaultOperationIdKey == "X-Request-Id"
prefixTracerState == "ot-tracer-"
fieldNameTraceID == prefixTracerState \o "traceid"
fieldNameSpanID == prefixTracerState \o "spanid"

severityDebug == "DEBUG"
severityInfo == "INFO"
severityWarning == "WARNING"
severityError == "ERROR"
severityCritical == "CRITICAL"
severityAlert == "ALERT"

\* logrus.Level values; "trace" is a level of the host that the table lacks.
Levels == {"panic", "fatal", "error", "warning", "info", "debug", "trace"}

levelsToSeverity ==
  [l \in {"debug", "info", "warning", "error", "fatal", "panic"} |->
     CASE l = "debug" -> severityDebug
       [] l = "info" -> severityInfo
       [] l = "warning" -> severityWarning
       [] l = "error" -> severityError
       [] l = "fatal" -> severityCritical
       [] l = "panic" -> severityAlert]

\* Mutant of SeverityOf: an unmapped level falls back to INFO.
SeverityOfFallback(level) ==
  IF level \in DOMAIN levelsToSeverity THEN levelsToSeverity[level]
  ELSE severityInfo

\* levelsToSeverity[e.Level]: a Go map lookup yields the zero value for a
\* missing key.
SeverityOf(level) ==
  IF level \in DOMAIN levelsToSeverity THEN levelsToSeverity[level] ELSE ""

(***************************************************************************)
(* interface{} values carried by the fields of a record.                   *)
(***************************************************************************)
StringVal(s) == [kind |-> "string", s |-> s, m |-> EmptyMap]
ErrorVal(s) == [kind |-> "error", s |-> s, m |-> EmptyMap]
IntVal(s) == [kind |-> "int", s |-> s, m |-> EmptyMap]
MapVal(m) == [kind |-> "map", s |-> "", m |-> m]
FuncVal == [kind |-> "func", s |-> "", m |-> EmptyMap]

\* fmt.Sprintf("%s", v)
SprintfS(v) ==
  CASE v.kind = "string" -> v.s
    [] v.kind = "error" -> v.s
    [] v.kind = "int" -> "%!s(int=" \o v.s \o ")"
    [] v.kind = "map" ->
         IF v.m = EmptyMap THEN "map[]" ELSE "map[method:" \o v.m["method"] \o "]"
    [] v.kind = "func" -> "%!s(func()=0x1)"

\* delete(m, key)
Delete(m, key) == [k \in (DOMAIN m) \ {key} |-> m[k]]

\* Mutant of getStringValue: the type assertion val.(string) is missing.
getStringValueAny(key, context) ==
  IF key \in DOMAIN context THEN context[key].s ELSE ""

\* getStringValue
getStringValue(key, context) ==
  IF key \in DOMAIN context
  THEN IF context[key].kind = "string" THEN context[key].s ELSE ""
  ELSE ""

(***************************************************************************)
(* Formatter, its options and its constructor.                             *)
(***************************************************************************)
LogrusPkg == <<"github.com", "sirupsen", "logrus">>

WithService(n) == [opt |-> "service", v |-> n, p |-> <<>>]
WithVersion(v) == [opt |-> "version", v |-> v, p |-> <<>>]
WithStackSkip(v) == [opt |-> "stackSkip", v |-> "", p |-> v]

\* Mutant of ApplyOption: WithStackSkip assigns the list instead of appending.
ApplyOptionReplacing(fmtr, option) ==
  CASE option.opt = "service" -> [fmtr EXCEPT !.Service = option.v]
    [] option.opt = "version" -> [fmtr EXCEPT !.Version = option.v]
    [] option.opt = "stackSkip" -> [fmtr EXCEPT !.StackSkip = <<option.p>>]

\* option(&fmtr)
ApplyOption(fmtr, option) ==
  CASE option.opt = "service" -> [fmtr EXCEPT !.Service = option.v]
    [] option.opt = "version" -> [fmtr EXCEPT !.Version = option.v]
    [] option.opt = "stackSkip" ->
         [fmtr EXCEPT !.StackSkip = Append(fmtr.StackSkip, option.p)]

RECURSIVE ApplyOptions(_, _)
ApplyOptions(fmtr, options) ==
  IF options = <<>> THEN fmtr
  ELSE ApplyOptions(ApplyOption(fmtr, Head(options)), Tail(options))

NewFormatter(options) ==
  ApplyOptions([Service |-> "", Version |-> "", StackSkip |-> <<LogrusPkg>>],
               options)

(***************************************************************************)
(* The call stack (github.com/go-stack/stack, as formatter.go uses it).    *)
(* callstack[1] is the frame of errorOrigin (depth 0), callstack[2] the    *)
(* frame of Format (depth 1), the rest are Format's callers.               *)
(***************************************************************************)
NoCall == [pkg |-> <<>>, file |-> "", line |-> 0, fn |-> ""]

\* stack.Caller(i): the zero Call past the end of the stack
Caller(stack, i) == IF i + 1 <= Len(stack) THEN stack[i + 1] ELSE NoCall

\* c.MarshalText() fails with ErrNoFunc on the zero Call
MarshalTextFails(c) == c = NoCall

\* Where "/vendor/" occurs in a path: the segments "vendor" that have a
\* segment before them and one after them.
VendorMarkers(pkg) == {i \in 2..(Len(pkg) - 1) : pkg[i] = "vendor"}

Min(S) == CHOOSE x \in S : \A y \in S : x <= y

\* strings.SplitN(pkg, "/vendor/", 2)
SplitN2(pkg) ==
  IF VendorMarkers(pkg) = {} THEN <<pkg>>
  ELSE LET i == Min(VendorMarkers(pkg))
       IN <<SubSeq(pkg, 1, i - 1), SubSeq(pkg, i + 1, Len(pkg))>>

\* parts := strings.SplitN(pkg, "/vendor/", 2); pkg = parts[len(parts)-1]
RemoveVendor(pkg) == LET parts == SplitN2(pkg) IN parts[Len(parts)]

\* the closure skip of errorOrigin
skip(fmtr, pkg) == \E i \in 1..Len(fmtr.StackSkip) : pkg = fmtr.StackSkip[i]

\* the loop of errorOrigin from depth i; depth records where it stopped
RECURSIVE walk(_, _, _)
walk(fmtr, stack, i) ==
  LET c == Caller(stack, i)
  IN IF MarshalTextFails(c)
     THEN [c |-> NoCall, err |-> NilError, depth |-> i]
     ELSE IF ~skip(fmtr, RemoveVendor(c.pkg))
          THEN [c |-> c, err |-> NilError, depth |-> i]
          ELSE walk(fmtr, stack, i + 1)

StartDepth == 2

errorOrigin(fmtr, stack) == walk(fmtr, stack, StartDepth)

(***************************************************************************)
(* Renderings of a stack.Call and of integers.                             *)
(***************************************************************************)
DigitChars == <<"0", "1", "2", "3", "4", "5", "6", "7", "8", "9">>

RECURSIVE Itoa(_)
Itoa(n) ==
  IF n < 10 THEN <<DigitChars[n + 1]>>
  ELSE Append(Itoa(n \div 10), DigitChars[(n % 10) + 1])

RECURSIVE Join(_)
Join(chars) == IF chars = <<>> THEN "" ELSE Head(chars) \o Join(Tail(chars))

\* fmt.Sprintf("%d", c), as characters: the line number, or the
\* "%!d(NOFUNC)" that go-stack prints for the zero Call
SprintfD(c) ==
  IF c = NoCall
  THEN <<"%", "!", "d", "(", "N", "O", "F", "U", "N", "C", ")">>
  ELSE Itoa(c.line)

\* fmt.Sprintf("%+s", c)
SprintfPlusS(c) == IF c = NoCall THEN "%!s(NOFUNC)" ELSE c.file

\* fmt.Sprintf("%n", c)
SprintfN(c) == IF c = NoCall THEN "%!n(NOFUNC)" ELSE c.fn

IsDigit(ch) == \E d \in 1..10 : DigitChars[d] = ch
DigitValue(ch) == (CHOOSE d \in 1..10 : DigitChars[d] = ch) - 1

RECURSIVE ParseDigits(_, _)
ParseDigits(chars, acc) ==
  IF chars = <<>> THEN acc
  ELSE ParseDigits(Tail(chars), acc * 10 + DigitValue(Head(chars)))

\* lineNumber, _ := strconv.ParseInt(s, 10, 64): 0 when s is no number
ParseInt(chars) ==
  IF chars # <<>> /\ \A i \in 1..Len(chars) : IsDigit(chars[i])
  THEN ParseDigits(chars, 0)
  ELSE 0

\* time.Now().UTC().Format(time.RFC3339)
Now == "2026-11-01T08:00:00Z"

(***************************************************************************)
(* Format, step by step.  ee.Context.Data is the record's own map          *)
(* (Data: e.Data copies the reference), so the deletions below act on it.  *)
(***************************************************************************)
ErrorTier == {severityError, severityCritical, severityAlert}

\* ee := entry{Message, Severity, Context: &context{Data: e.Data}} and the
\* timestamp
NewEnvelope(entry) ==
  [Timestamp |-> IF ~skipTimestamp THEN Now ELSE "",
   ServiceContext |-> Nil,
   Message |-> entry.Message,
   Severity |-> SeverityOf(entry.Level),
   Context |-> [Data |-> entry.Data, ReportLocation |-> Nil,
                HTTPRequest |-> EmptyMap, User |-> ""],
   Trace |-> "",
   SpanID |-> "",
   SourceLocation |-> Nil,
   Operation |-> Nil]

\* ee.ServiceContext = &serviceContext{...}
SetServiceContext(env, fmtr) ==
  [env EXCEPT !.ServiceContext =
     Ptr([Service |-> fmtr.Service, Version |-> fmtr.Version])]

\* Mutant of MergeError: the delete of the error key is missing.
MergeErrorKeep(env, entry) ==
  IF "error" \in DOMAIN env.Context.Data
  THEN [env EXCEPT
          !.Message = entry.Message \o ": " \o SprintfS(env.Context.Data["error"])]
  ELSE [env EXCEPT !.Message = entry.Message]

\* if err, ok := ee.Context.Data["error"]; ok {...} else {...}
MergeError(env, entry) ==
  IF "error" \in DOMAIN env.Context.Data
  THEN [env EXCEPT
          !.Message = entry.Message \o ": " \o SprintfS(env.Context.Data["error"]),
          !.Context.Data = Delete(env.Context.Data, "error")]
  ELSE [env EXCEPT !.Message = entry.Message]

\* if reqData, ok := ee.Context.Data["httpRequest"]; ok {...}
MoveHTTPRequest(env) ==
  IF "httpRequest" \in DOMAIN env.Context.Data
     /\ env.Context.Data["httpRequest"].kind = "map"
  THEN [env EXCEPT
          !.Context.HTTPRequest = env.Context.Data["httpRequest"].m,
          !.Context.Data = Delete(env.Context.Data, "httpRequest")]
  ELSE env

\* if user := getStringValue(DefaultSubjectKey, ...); user != "" {...}
MoveUser(env) ==
  LET user == getStringValue(DefaultSubjectKey, env.Context.Data)
  IN IF user # ""
     THEN [env EXCEPT !.Context.User = user,
                      !.Context.Data = Delete(env.Context.Data, DefaultSubjectKey)]
     ELSE env

\* if c, err := f.errorOrigin(); err == nil { ee.Context.ReportLocation = ... }
SetReportLocation(env, o) ==
  IF o.err = NilError
  THEN LET lineNumber == ParseInt(SprintfD(o.c))
       IN [env EXCEPT !.Context.ReportLocation =
             Ptr([FilePath |-> SprintfPlusS(o.c),
                  LineNumber |-> lineNumber,
                  FunctionName |-> SprintfN(o.c)])]
  ELSE env

\* if c, err := f.errorOrigin(); err == nil { ee.SourceLocation = ... }
SetSourceLocation(env, o) ==
  IF o.err = NilError
  THEN LET lineNumber == ParseInt(SprintfD(o.c))
       IN [env EXCEPT !.SourceLocation =
             Ptr([File |-> SprintfPlusS(o.c),
                  Line |-> Join(Itoa(lineNumber)),
                  Function |-> SprintfN(o.c)])]
  ELSE env

\* Mutant of SeverityBranch: the default case falls out of the switch and
\* runs after the error case as well.
SeverityBranchAlways(env, fmtr, entry, o) ==
  SetSourceLocation(
    SetReportLocation(
      MoveUser(MoveHTTPRequest(MergeError(SetServiceContext(env, fmtr), entry))),
      o),
    o)

\* switch severity { case severityError, severityCritical, severityAlert: ...
\* default: ... }
SeverityBranch(env, fmtr, entry, o) ==
  IF env.Severity \in ErrorTier
  THEN SetReportLocation(
         MoveUser(MoveHTTPRequest(MergeError(SetServiceContext(env, fmtr), entry))),
         o)
  ELSE SetSourceLocation(env, o)

\* if operationId := getStringValue(DefaultOperationIdKey, ...); ... {...}
MoveOperation(env) ==
  LET operationId == getStringValue(DefaultOperationIdKey, env.Context.Data)
  IN IF operationId # ""
     THEN [env EXCEPT
             !.Operation = Ptr([Id |-> operationId, Producer |-> "",
                                First |-> Nil, Last |-> Nil]),
             !.Context.Data = Delete(env.Context.Data, DefaultOperationIdKey)]
     ELSE env

\* if traceId := getStringValue(fieldNameTraceID, ...); traceId != "" {...}
MoveTrace(env) ==
  LET traceId == getStringValue(fieldNameTraceID, env.Context.Data)
  IN IF traceId # ""
     THEN [env EXCEPT !.Trace = traceId,
                      !.Context.Data = Delete(env.Context.Data, fieldNameTraceID)]
     ELSE env

\* if spanId := getStringValue(fieldNameSpanID, ...); spanId != "" {...}
MoveSpan(env) ==
  LET spanId == getStringValue(fieldNameSpanID, env.Context.Data)
  IN IF spanId # ""
     THEN [env EXCEPT !.SpanID = spanId,
                      !.Context.Data = Delete(env.Context.Data, fieldNameSpanID)]
     ELSE env

\* The envelope as it stands when Format reaches json.Marshal.
Envelope(fmtr, entry, o) ==
  MoveSpan(MoveTrace(MoveOperation(
    SeverityBranch(NewEnvelope(entry), fmtr, entry, o))))

(***************************************************************************)
(* json.Marshal(ee).  A JSON object is a function over the keys written.   *)
(* A field tagged omitempty is left out when it is "", 0, a nil pointer or *)
(* an empty map; a pointer that is set is written, whatever it points to.  *)
(***************************************************************************)
Field(k, omit, v) == [k |-> k, omit |-> omit, v |-> v]

\* fields: the struct's fields in declaration order
Obj(fields) ==
  LET kept == {i \in 1..Len(fields) : ~fields[i].omit}
  IN [k \in {fields[i].k : i \in kept} |->
        fields[CHOOSE i \in kept : fields[i].k = k].v]

\* the encoding of an interface{} value
JsonValue(v) ==
  CASE v.kind = "string" -> [json |-> "string", s |-> v.s, m |-> EmptyMap]
    [] v.kind = "int" -> [json |-> "number", s |-> v.s, m |-> EmptyMap]
    [] v.kind = "error" -> [json |-> "object", s |-> "", m |-> EmptyMap]
    [] v.kind = "map" -> [json |-> "object", s |-> "", m |-> v.m]
    [] v.kind = "func" -> [json |-> "unsupported", s |-> "", m |-> EmptyMap]

JsonMap(m) == [k \in DOMAIN m |-> JsonValue(m[k])]

JsonServiceContext(sc) ==
  Obj(<<Field("service", sc.Service = "", sc.Service),
       Field("version", sc.Version = "", sc.Version)>>)

JsonReportLocation(rl) ==
  Obj(<<Field("filePath", rl.FilePath = "", rl.FilePath),
       Field("lineNumber", rl.LineNumber = 0, rl.LineNumber),
       Field("functionName", rl.FunctionName = "", rl.FunctionName)>>)

JsonOperation(op) ==
  Obj(<<Field("id", op.Id = "", op.Id),
       Field("producer", op.Producer = "", op.Producer),
       Field("first", op.First = Nil, op.First),
       Field("last", op.Last = Nil, op.Last)>>)

JsonSourceLocation(sl) ==
  Obj(<<Field("file", sl.File = "", sl.File),
       Field("line", sl.Line = "", sl.Line),
       Field("function", sl.Function = "", sl.Function)>>)

JsonContext(c) ==
  Obj(<<Field("data", c.Data = EmptyMap, JsonMap(c.Data)),
       Field("reportLocation", c.ReportLocation = Nil,
             IF c.ReportLocation = Nil THEN Nil
             ELSE JsonReportLocation(c.ReportLocation[1])),
       Field("httpRequest", c.HTTPRequest = EmptyMap, c.HTTPRequest),
       Field("user", c.User = "", c.User)>>)

\* Mutant of JsonEntry: the severity tag lacks omitempty.
JsonEntryNoOmit(env) ==
  Obj(<<Field("timestamp", env.Timestamp = "", env.Timestamp),
       Field("serviceContext", env.ServiceContext = Nil,
             IF env.ServiceContext = Nil THEN Nil
             ELSE JsonServiceContext(env.ServiceContext[1])),
       Field("message", env.Message = "", env.Message),
       Field("severity", FALSE, env.Severity),
       Field("context", FALSE, JsonContext(env.Context)),
       Field("logging.googleapis.com/trace", env.Trace = "", env.Trace),
       Field("logging.googleapis.com/span_id", env.SpanID = "", env.SpanID),
       Field("sourceLocation", env.SourceLocation = Nil,
             IF env.SourceLocation = Nil THEN Nil
             ELSE JsonSourceLocation(env.SourceLocation[1])),
       Field("operation", env.Operation = Nil,
             IF env.Operation = Nil THEN Nil
             ELSE JsonOperation(env.Operation[1]))>>)

\* the encoding of entry; ee.Context is set by the entry literal and never nil
JsonEntry(env) ==
  Obj(<<Field("timestamp", env.Timestamp = "", env.Timestamp),
       Field("serviceContext", env.ServiceContext = Nil,
             IF env.ServiceContext = Nil THEN Nil
             ELSE JsonServiceContext(env.ServiceContext[1])),
       Field("message", env.Message = "", env.Message),
       Field("severity", env.Severity = "", env.Severity),
       Field("context", FALSE, JsonContext(env.Context)),
       Field("logging.googleapis.com/trace", env.Trace = "", env.Trace),
       Field("logging.googleapis.com/span_id", env.SpanID = "", env.SpanID),
       Field("sourceLocation", env.SourceLocation = Nil,
             IF env.SourceLocation = Nil THEN Nil
             ELSE JsonSourceLocation(env.SourceLocation[1])),
       Field("operation", env.Operation = Nil,
             IF env.Operation = Nil THEN Nil
             ELSE JsonOperation(env.Operation[1]))>>)

\* json.Marshal fails on a value it cannot encode
Unsupported(env) ==
  \E k \in DOMAIN env.Context.Data : env.Context.Data[k].kind = "func"

\* b, err := json.Marshal(ee); if err != nil { return nil, err };
\* return append(b, '\n'), nil
Marshal(env) ==
  IF Unsupported(env)
  THEN [json |-> EmptyMap, tail |-> "", err |-> "json: unsupported type: func()"]
  ELSE [json |-> JsonEntry(env), tail |-> "\n", err |-> NilError]

(***************************************************************************)
(* Inputs: records as the logging host builds them, call stacks, options.  *)
(***************************************************************************)
SpecialKeys ==
  {"error", "httpRequest", DefaultSubjectKey, DefaultOperationIdKey,
   fieldNameTraceID, fieldNameSpanID}

Keys == SpecialKeys \cup {"foo"}

ValuesFor(k) ==
  CASE k = "error" -> {ErrorVal("test error"), StringVal("bar"), FuncVal}
    [] k = "httpRequest" ->
         {MapVal([method |-> "GET"]), MapVal(EmptyMap), StringVal("GET /")}
    [] k = "foo" -> {StringVal("bar"), StringVal(""), FuncVal}
    [] OTHER -> {StringVal("id-1"), StringVal(""), IntVal("42")}

AllValues == UNION {ValuesFor(k) : k \in Keys}

\* every field map of at most n fields
DataMaps(n) ==
  UNION {{d \in [K -> AllValues] : \A k \in K : d[k] \in ValuesFor(k)} :
           K \in {K \in SUBSET Keys : Cardinality(K) <= n}}

Messages == {"", "my log entry"}

Entries == [Level : Levels, Message : Messages, Data : DataMaps(MaxFields)]

EntriesOrigin ==
  [Level : Levels, Message : {"my log entry"}, Data : {EmptyMap}]

FormatterPkg == <<"github.com", "connctd", "logrus-stackdriver-formatter">>
AppPkg == <<"github.com", "acme", "app">>
LibPkg == <<"github.com", "acme", "lib">>
RuntimePkg == <<"runtime">>

OriginFrame ==
  [pkg |-> FormatterPkg,
   file |-> "github.com/connctd/logrus-stackdriver-formatter/formatter.go",
   line |-> 149, fn |-> "(*Formatter).errorOrigin"]
FormatFrame ==
  [pkg |-> FormatterPkg,
   file |-> "github.com/connctd/logrus-stackdriver-formatter/formatter.go",
   line |-> 214, fn |-> "(*Formatter).Format"]
LogrusFrame ==
  [pkg |-> LogrusPkg, file |-> "github.com/sirupsen/logrus/entry.go",
   line |-> 7, fn |-> "Entry.log"]
VendoredLogrusFrame ==
  [pkg |-> AppPkg \o <<"vendor">> \o LogrusPkg,
   file |-> "github.com/acme/app/vendor/github.com/sirupsen/logrus/entry.go",
   line |-> 7, fn |-> "Entry.log"]
NestedVendoredLogrusFrame ==
  [pkg |-> AppPkg \o <<"vendor">> \o LibPkg \o <<"vendor">> \o LogrusPkg,
   file |-> "github.com/acme/app/vendor/github.com/acme/lib/vendor/github.com/sirupsen/logrus/entry.go",
   line |-> 7, fn |-> "Entry.log"]
VendoredLibFrame ==
  [pkg |-> AppPkg \o <<"vendor">> \o LibPkg,
   file |-> "github.com/acme/app/vendor/github.com/acme/lib/lib.go",
   line |-> 23, fn |-> "Do"]
AppFrame ==
  [pkg |-> AppPkg, file |-> "github.com/acme/app/main.go",
   line |-> 118, fn |-> "main"]

\* the frame at the bottom of every goroutine's stack
RuntimeFrame ==
  [pkg |-> RuntimePkg, file |-> "runtime/asm_amd64.s", line |-> 1650,
   fn |-> "goexit"]

CallerFrames ==
  {LogrusFrame, VendoredLogrusFrame, NestedVendoredLogrusFrame,
   VendoredLibFrame, AppFrame}

SeqsUpTo(S, n) == UNION {[1..k -> S] : k \in 0..n}

\* stacks of up to MaxDepth frames, one at least, between Format and the
\* bottom of the goroutine's stack
StacksOrigin ==
  {<<OriginFrame, FormatFrame>> \o callers \o <<RuntimeFrame>> :
     callers \in SeqsUpTo(CallerFrames, MaxDepth) \ {<<>>}}

\* a log call of the application, and one that is the goroutine's own
\* function (go logger.Info(...))
Stacks ==
  {<<OriginFrame, FormatFrame, LogrusFrame, AppFrame, RuntimeFrame>>,
   <<OriginFrame, FormatFrame, LogrusFrame, RuntimeFrame>>}

Formatters ==
  {NewFormatter(options) :
     options \in SeqsUpTo({WithService("test"), WithVersion("0.1"),
                           WithStackSkip(RuntimePkg)}, MaxOptions)}

FormattersOrigin ==
  {NewFormatter(options) :
     options \in SeqsUpTo({WithStackSkip(LibPkg), WithStackSkip(AppPkg),
                           WithStackSkip(RuntimePkg)}, MaxOptions)}

(***************************************************************************)
(* The state machine: a formatter is built, the host builds a record and   *)
(* hands it to Format, possibly more than once.                            *)
(***************************************************************************)
NoEntry == [Level |-> "info", Message |-> "", Data |-> EmptyMap]

InitWith(fmtrs) ==
  /\ f \in fmtrs
  /\ e = NoEntry
  /\ dataAtCall = EmptyMap
  /\ callstack = <<>>
  /\ origin = [c |-> NoCall, err |-> NilError, depth |-> 0]
  /\ ee = NewEnvelope(NoEntry)
  /\ ret = [json |-> EmptyMap, tail |-> "", err |-> NilError]
  /\ pc = "ready"

\* logger.WithFields(...): the host builds the record
NewEntry(entries) ==
  /\ pc = "ready"
  /\ \E en \in entries : e' = en
  /\ pc' = "entry"
  /\ UNCHANGED <<f, dataAtCall, callstack, origin, ee, ret>>

\* f.Format(e) under call stack `stack`
FormatOn(stack) ==
  LET o == errorOrigin(f, stack)
      env == Envelope(f, e, o)
  IN /\ dataAtCall' = e.Data
     /\ callstack' = stack
     /\ origin' = o
     /\ ee' = env
     /\ e' = [e EXCEPT !.Data = env.Context.Data]
     /\ ret' = Marshal(env)
     /\ pc' = "formatted"
     /\ UNCHANGED f

Format(stacks) ==
  /\ pc = "entry"
  /\ \E stack \in stacks : FormatOn(stack)

\* The call is over and its locals are gone; the host still holds the
\* record and may log it again.
Reuse ==
  /\ pc = "formatted"
  /\ pc' = "entry"
  /\ dataAtCall' = EmptyMap
  /\ callstack' = <<>>
  /\ origin' = [c |-> NoCall, err |-> NilError, depth |-> 0]
  /\ ee' = NewEnvelope(NoEntry)
  /\ ret' = [json |-> EmptyMap, tail |-> "", err |-> NilError]
  /\ UNCHANGED <<f, e>>

Init == InitWith(Formatters)
Next == NewEntry(Entries) \/ Format(Stacks) \/ Reuse
Spec == Init /\ [][Next]_vars

InitOrigin == InitWith(FormattersOrigin)
NextOrigin == NewEntry(EntriesOrigin) \/ Format(StacksOrigin) \/ Reuse
SpecOrigin == InitOrigin /\ [][NextOrigin]_vars

(***************************************************************************)
(* Properties.  They speak of the state right after a Format call: the     *)
(* record as the caller sees it (e), its fields as they were at the call   *)
(* (dataAtCall), the envelope (ee) and what Format returned (ret).         *)
(***************************************************************************)
Formatted == pc = "formatted"
Ok == ret.err = NilError
out == ret.json

ErrorLevels == {"error", "fatal", "panic"}
SubErrorLevels == {"debug", "info", "warning"}

Has(obj, k) == k \in DOMAIN obj
HasReportLocation == Has(out, "context") /\ Has(out.context, "reportLocation")
HasSourceLocation == Has(out, "sourceLocation")
HasServiceContext == Has(out, "serviceContext")
OutData == IF Has(out.context, "data") THEN out.context.data ELSE EmptyMap
SeverityIn(S) == Has(out, "severity") /\ out.severity \in S

\* C1, as stated: reportLocation and sourceLocation never both appear;
\* reportLocation and serviceContext appear only at severity ERROR, CRITICAL
\* or ALERT (levels error, fatal, panic); sourceLocation appears only at
\* severity DEBUG, INFO or WARNING (levels debug, info, warning).
C1_AsStated ==
  (Formatted /\ Ok) =>
    /\ ~(HasReportLocation /\ HasSourceLocation)
    /\ (HasReportLocation \/ HasServiceContext) =>
         (e.Level \in ErrorLevels /\ SeverityIn({"ERROR", "CRITICAL", "ALERT"}))
    /\ HasSourceLocation =>
         (e.Level \in SubErrorLevels /\ SeverityIn({"DEBUG", "INFO", "WARNING"}))

\* C1, amended: reportLocation and sourceLocation never both appear;
\* reportLocation and serviceContext appear only at severity ERROR, CRITICAL
\* or ALERT; sourceLocation appears only when the severity is not one of
\* these: DEBUG, INFO or WARNING, or no severity at all for a level outside
\* the table.
C1_LocationsExclusive ==
  (Formatted /\ Ok) =>
    /\ ~(HasReportLocation /\ HasSourceLocation)
    /\ (HasReportLocation \/ HasServiceContext) =>
         (e.Level \in ErrorLevels /\ SeverityIn({"ERROR", "CRITICAL", "ALERT"}))
    /\ HasSourceLocation =>
         \/ e.Level \in SubErrorLevels /\ SeverityIn({"DEBUG", "INFO", "WARNING"})
         \/ e.Level \notin (ErrorLevels \cup SubErrorLevels) /\ ~Has(out, "severity")

C1_Witness ==
  /\ Formatted /\ Ok
  /\ e.Level = "trace"
  /\ HasSourceLocation /\ ~HasReportLocation /\ ~HasServiceContext

\* C3, as stated: after Format returns, the record's field map has the keys
\* and values it had before the call.
C3_DataUnchanged == Formatted => e.Data = dataAtCall

\* The severity the table of the claim gives a level.
SeverityTable(level) ==
  CASE level = "debug" -> "DEBUG"
    [] level = "info" -> "INFO"
    [] level = "warning" -> "WARNING"
    [] level = "error" -> "ERROR"
    [] level = "fatal" -> "CRITICAL"
    [] level = "panic" -> "ALERT"
    [] OTHER -> ""

\* C6: the severity written is the one the fixed table gives the level; for
\* a level outside the six the severity is empty and omitted, and Format
\* fails only when a field left in the data cannot be encoded, never because
\* of the level.
C6_SeverityTable ==
  Formatted =>
    /\ ee.Severity = SeverityTable(e.Level)
    /\ Ok => IF e.Level \in ErrorLevels \cup SubErrorLevels
             THEN Has(out, "severity") /\ out.severity = SeverityTable(e.Level)
             ELSE ~Has(out, "severity")
    /\ ~Ok => \E k \in DOMAIN dataAtCall : dataAtCall[k].kind = "func"

C6_Witness ==
  /\ Formatted /\ Ok
  /\ e.Level = "trace"
  /\ ee.Severity = ""
  /\ ~Has(out, "severity")
  /\ dataAtCall # EmptyMap

\* What the output says the message is: an empty message is omitted.
MessageIs(m) == IF m = "" THEN ~Has(out, "message") ELSE Has(out, "message") /\ out.message = m

\* C7: at levels error, fatal and panic, a record with an error field gets
\* the message "<message>: <error>" and no error key in context.data; one
\* without keeps its message.
C7_ErrorMerge ==
  (Formatted /\ e.Level \in ErrorLevels) =>
    IF "error" \in DOMAIN dataAtCall
    THEN /\ ee.Message = e.Message \o ": " \o SprintfS(dataAtCall["error"])
         /\ "error" \notin DOMAIN ee.Context.Data
         /\ Ok => /\ MessageIs(e.Message \o ": " \o SprintfS(dataAtCall["error"]))
                  /\ "error" \notin DOMAIN OutData
    ELSE /\ ee.Message = e.Message
         /\ Ok => MessageIs(e.Message)

C7_Witness ==
  /\ Formatted /\ Ok
  /\ e.Level = "error"
  /\ e.Message = "my log entry"
  /\ "error" \in DOMAIN dataAtCall
  /\ dataAtCall["error"] = ErrorVal("test error")
  /\ out.message = "my log entry: test error"
  /\ "error" \notin DOMAIN OutData

\* C8, as stated: an info record with the field foo=bar is written with the
\* top-level key "foo":"bar" next to "severity":"INFO" and "message", and
\* without serviceContext.
C8_FooTopLevel ==
  (Formatted /\ Ok /\ e.Level = "info" /\ e.Message = "my log entry"
     /\ dataAtCall = [foo |-> StringVal("bar")]) =>
    /\ Has(out, "foo") /\ out.foo = "bar"
    /\ Has(out, "severity") /\ out.severity = "INFO"
    /\ Has(out, "message") /\ out.message = "my log entry"
    /\ ~HasServiceContext

(***************************************************************************)
(* The six special keys and their designated places.                       *)
(***************************************************************************)
\* The value of key k, at the call, stands at k's designated place in the
\* envelope.
PlacedInEnvelope(k) ==
  LET v == dataAtCall[k]
  IN CASE k = "error" -> ee.Message = e.Message \o ": " \o SprintfS(v)
       [] k = "httpRequest" -> v.kind = "map" /\ ee.Context.HTTPRequest = v.m
       [] k = DefaultSubjectKey -> v.kind = "string" /\ ee.Context.User = v.s
       [] k = DefaultOperationIdKey ->
            v.kind = "string" /\ ee.Operation # Nil /\ ee.Operation[1].Id = v.s
       [] k = fieldNameTraceID -> v.kind = "string" /\ ee.Trace = v.s
       [] k = fieldNameSpanID -> v.kind = "string" /\ ee.SpanID = v.s

\* ... and in the output.
PlacedInOutput(k) ==
  LET v == dataAtCall[k]
  IN CASE k = "error" -> MessageIs(e.Message \o ": " \o SprintfS(v))
       [] k = "httpRequest" ->
            IF v.m = EmptyMap THEN ~Has(out.context, "httpRequest")
            ELSE Has(out.context, "httpRequest") /\ out.context.httpRequest = v.m
       [] k = DefaultSubjectKey -> Has(out.context, "user") /\ out.context.user = v.s
       [] k = DefaultOperationIdKey ->
            Has(out, "operation") /\ out.operation = [id |-> v.s]
       [] k = fieldNameTraceID ->
            /\ Has(out, "logging.googleapis.com/trace")
            /\ out["logging.googleapis.com/trace"] = v.s
       [] k = fieldNameSpanID ->
            /\ Has(out, "logging.googleapis.com/span_id")
            /\ out["logging.googleapis.com/span_id"] = v.s

\* The designated place of key k is as Format leaves it when it extracts
\* nothing.
PlaceUnset(k) ==
  CASE k = "error" -> ee.Message = e.Message /\ (Ok => MessageIs(e.Message))
    [] k = "httpRequest" ->
         ee.Context.HTTPRequest = EmptyMap /\ (Ok => ~Has(out.context, "httpRequest"))
    [] k = DefaultSubjectKey ->
         ee.Context.User = "" /\ (Ok => ~Has(out.context, "user"))
    [] k = DefaultOperationIdKey -> ee.Operation = Nil /\ (Ok => ~Has(out, "operation"))
    [] k = fieldNameTraceID ->
         ee.Trace = "" /\ (Ok => ~Has(out, "logging.googleapis.com/trace"))
    [] k = fieldNameSpanID ->
         ee.SpanID = "" /\ (Ok => ~Has(out, "logging.googleapis.com/span_id"))

NonEmptyString(v) == v.kind = "string" /\ v.s # ""

\* When the amended claim has key k extracted.
Extracts(k) ==
  /\ k \in DOMAIN dataAtCall
  /\ CASE k = "error" -> e.Level \in ErrorLevels
       [] k = "httpRequest" -> e.Level \in ErrorLevels /\ dataAtCall[k].kind = "map"
       [] k = DefaultSubjectKey ->
            e.Level \in ErrorLevels /\ NonEmptyString(dataAtCall[k])
       [] OTHER -> NonEmptyString(dataAtCall[k])

\* C2, as stated: at every level and for every value, a special key that is
\* present is removed from context.data and its value stands at its
\* designated place; a special key that is absent leaves context.data as it
\* was.
C2_AsStated ==
  Formatted =>
    /\ \A k \in SpecialKeys \cap DOMAIN dataAtCall :
         /\ k \notin DOMAIN ee.Context.Data
         /\ PlacedInEnvelope(k)
    /\ \A k \in DOMAIN dataAtCall \ SpecialKeys :
         k \in DOMAIN ee.Context.Data /\ ee.Context.Data[k] = dataAtCall[k]

\* C2, amended: a special key is extracted only under its own condition:
\* error (any value) at levels error, fatal and panic; httpRequest at these
\* levels when its value is a mapping; the subject-id key at these levels
\* when its value is a non-empty string; the operation-id, trace-id and
\* span-id keys at every level when their value is a non-empty string.  An
\* extracted key is removed from context.data and its value stands at its
\* designated place (an empty httpRequest mapping is removed and then
\* omitted).  Any other special key that is present stays in context.data
\* with its value and its designated place stays unset, so no key is ever in
\* both; every other field stays in context.data.
C2_SpecialKeys ==
  Formatted =>
    /\ \A k \in SpecialKeys :
         IF Extracts(k)
         THEN /\ k \notin DOMAIN ee.Context.Data
              /\ PlacedInEnvelope(k)
              /\ Ok => (k \notin DOMAIN OutData /\ PlacedInOutput(k))
         ELSE /\ PlaceUnset(k)
              /\ k \in DOMAIN dataAtCall =>
                   /\ k \in DOMAIN ee.Context.Data
                   /\ ee.Context.Data[k] = dataAtCall[k]
                   /\ Ok => (k \in DOMAIN OutData /\ OutData[k] = JsonValue(dataAtCall[k]))
              /\ k \notin DOMAIN dataAtCall => k \notin DOMAIN ee.Context.Data
    /\ \A k \in DOMAIN dataAtCall \ SpecialKeys :
         k \in DOMAIN ee.Context.Data /\ ee.Context.Data[k] = dataAtCall[k]
    /\ DOMAIN ee.Context.Data \subseteq DOMAIN dataAtCall

C2_Witness ==
  /\ Formatted /\ Ok
  /\ e.Level = "info"
  /\ DOMAIN dataAtCall = {"error", DefaultOperationIdKey}
  /\ Extracts(DefaultOperationIdKey)
  /\ out.operation = [id |-> "id-1"]
  /\ DOMAIN OutData = {"error"}

(***************************************************************************)
(* Omit-empty.                                                             *)
(***************************************************************************)
\* No key of object obj among keys holds the empty value `empty`.
NoneEmpty(obj, keys, empty) == \A k \in keys \cap DOMAIN obj : obj[k] # empty

TopStrings ==
  {"timestamp", "message", "severity", "logging.googleapis.com/trace",
   "logging.googleapis.com/span_id"}

\* The strings, numbers and maps that are written are not empty.
ScalarsOmitEmpty ==
  /\ NoneEmpty(out, TopStrings, "")
  /\ NoneEmpty(out.context, {"user"}, "")
  /\ NoneEmpty(out.context, {"data", "httpRequest"}, EmptyMap)
  /\ Has(out, "serviceContext") =>
       NoneEmpty(out.serviceContext, {"service", "version"}, "")
  /\ Has(out.context, "reportLocation") =>
       /\ NoneEmpty(out.context.reportLocation, {"filePath", "functionName"}, "")
       /\ NoneEmpty(out.context.reportLocation, {"lineNumber"}, 0)
  /\ Has(out, "sourceLocation") =>
       NoneEmpty(out.sourceLocation, {"file", "line", "function"}, "")
  /\ Has(out, "operation") =>
       /\ NoneEmpty(out.operation, {"id", "producer"}, "")
       /\ NoneEmpty(out.operation, {"first", "last"}, Nil)

\* C4, as stated: no optional field that is empty or zero is written, the
\* sub-objects context, serviceContext, sourceLocation, operation and
\* context.data that carry no member included.
C4_AsStated ==
  (Formatted /\ Ok) =>
    /\ ScalarsOmitEmpty
    /\ \A o \in {"context", "serviceContext", "sourceLocation", "operation"} \cap DOMAIN out :
         out[o] # EmptyMap
    /\ NoneEmpty(out.context, {"data", "reportLocation"}, EmptyMap)

\* C4, amended: no string, number or map field that is empty or zero is
\* written, and no sub-object that was never set: serviceContext and
\* context.reportLocation are absent below error level, sourceLocation is
\* absent at error level and above, operation is absent without an
\* operation id.  A sub-object that was set is written even when it carries
\* no member: context is written in every output and serviceContext in
\* every output at levels error, fatal and panic, as {} when empty.
C4_OmitEmpty ==
  (Formatted /\ Ok) =>
    /\ ScalarsOmitEmpty
    /\ Has(out, "context")
    /\ HasServiceContext <=> e.Level \in ErrorLevels
    /\ HasReportLocation <=> e.Level \in ErrorLevels
    /\ HasSourceLocation <=> e.Level \notin ErrorLevels
    /\ Has(out, "operation") <=> ee.Operation # Nil
    /\ Has(out, "operation") => out.operation # EmptyMap
    /\ out.context = EmptyMap <=>
         /\ ee.Context.Data = EmptyMap /\ ee.Context.HTTPRequest = EmptyMap
         /\ ee.Context.User = "" /\ ee.Context.ReportLocation = Nil
    /\ HasServiceContext =>
         (out.serviceContext = EmptyMap <=> (f.Service = "" /\ f.Version = ""))

C4_Witness ==
  /\ Formatted /\ Ok
  /\ out.context = EmptyMap
  /\ e.Level = "trace" /\ e.Message = ""
  /\ DOMAIN out = {"timestamp", "context", "sourceLocation"}

(***************************************************************************)
(* Origin resolution.                                                      *)
(***************************************************************************)
\* The walk ran off the end of the stack.
Exhausted == origin.c = NoCall /\ origin.depth + 1 > Len(callstack)

\* C5, as stated: when the stack walk is exhausted, Format does not fail
\* and writes no location: no context.reportLocation at levels error, fatal
\* and panic, no sourceLocation below.
C5_NoLocationWhenExhausted ==
  (Formatted /\ Exhausted /\ dataAtCall = EmptyMap) =>
    /\ Ok
    /\ ~HasReportLocation
    /\ ~HasSourceLocation

Range(seq) == {seq[i] : i \in 1..Len(seq)}

\* The frame stack.Caller(d) yields on the stack of the call.
FrameAt(d) == callstack[d + 1]

\* The depths the walk looked at that hold a frame.
Walked == {d \in 2..origin.depth : d + 1 <= Len(callstack)}

Max(S) == CHOOSE x \in S : \A y \in S : x >= y

\* The portion of a path after its last "/vendor/"; the path itself when it
\* has none.
AfterLastVendor(pkg) ==
  IF VendorMarkers(pkg) = {} THEN pkg
  ELSE SubSeq(pkg, Max(VendorMarkers(pkg)) + 1, Len(pkg))

\* C10, as stated: the path compared against StackSkip is the portion after
\* the last "/vendor/" of the frame's package path, or the whole path when
\* it has none: a frame is walked past exactly when that portion is in
\* StackSkip.
C10_ComparesAfterLastVendor ==
  Formatted =>
    \A d \in Walked :
      /\ RemoveVendor(FrameAt(d).pkg) = AfterLastVendor(FrameAt(d).pkg)
      /\ d < origin.depth <=> AfterLastVendor(FrameAt(d).pkg) \in Range(f.StackSkip)
====
